---- MODULE Spec2Model ----
(***************************************************************************)
(* SimplePersistence (utils/simple_persistence.py): an on-disk store of    *)
(* line-oriented submissions with a metadata.json sidecar and time-based   *)
(* eviction.  The state is the base directory (payload files and the       *)
(* metadata document), the UTC clock, and the outcome of the most recent   *)
(* call.  Time is counted in ticks; Day ticks make one timedelta(days=1).  *)
(* callers holds, for each process using the directory, the position it    *)
(* has reached inside a call and the local variables of that call.         *)
(***************************************************************************)
EXTENDS Integers, Sequences, FiniteSets, TLC

VARIABLES files, metadata_file, now, last, edits, callers

vars == <<files, metadata_file, now, last, edits, callers>>

----------------------------------------------------------------------------
(* Bounds of the model *)

\* the clock runs through at most this many whole retention periods
MaxPeriods == 1
\* and is observed at most this many ticks past a whole period
MaxOffset == 1
\* number of changes made to metadata.json from outside the class
MaxEdits == 1

(* Program constants *)

\* cleanup_submissions(self, older_than_days: int = 28)
DefaultDays == 28
\* ticks in timedelta(days=1): the clock resolves half days
Day == 2

Period == DefaultDays * Day

Ids == {"sub1", "sub2"}

\* the characters "\n" and "\r"
LF == "LF"
CR == "CR"

\* payloads callers store: [], [""], ["a", "b"] and ["a\rb"]; a line is the
\* sequence of its characters, and no line holds "\n"
Payloads == { << >>,
              << << >> >>,
              << <<"a">>, <<"b">> >>,
              << <<"a", CR, "b">> >> }

\* payloads stored while metadata.json is changed from outside
PayloadsFS == { << >>, << <<"a">>, <<"b">> >> }

\* older_than_days arguments tried by callers of cleanup_submissions
Thresholds == {0, DefaultDays}

\* ages (in ticks) an outside edit gives a date_indexed: 1 day and 30 days
Ages == {Day, 30 * Day}

\* ticks that may pass between two clock reads of one call
Elapsed == {0, 1}

\* steps of the clock between calls: one tick, or one retention period
Advances == {1, Period}

ClockOK(t) == /\ t <= MaxPeriods * Period + MaxOffset
              /\ t % Period <= MaxOffset

----------------------------------------------------------------------------
(* Payload files: text written and read back *)

NoFile == [exists |-> FALSE, text |-> << >>]

\* for line in payload: f.write(line + "\n")
RECURSIVE WriteLines(_)
WriteLines(payload) ==
  IF payload = << >> THEN << >>
  ELSE Head(payload) \o <<LF>> \o WriteLines(Tail(payload))

\* open("r") in text mode with the default newline=None: on input "\r\n" and
\* a lone "\r" are both translated to "\n"
RECURSIVE TranslateNewlines(_)
TranslateNewlines(text) ==
  IF text = << >> THEN << >>
  ELSE IF Head(text) = CR
       THEN IF Len(text) >= 2 /\ text[2] = LF
            THEN <<LF>> \o TranslateNewlines(Tail(Tail(text)))
            ELSE <<LF>> \o TranslateNewlines(Tail(text))
       ELSE <<Head(text)>> \o TranslateNewlines(Tail(text))

\* "for line in f": the lines of the text, each with its terminator; a last
\* line without terminator is a line too
RECURSIVE FileLines(_, _)
FileLines(text, cur) ==
  IF text = << >> THEN (IF cur = << >> THEN << >> ELSE <<cur>>)
  ELSE IF Head(text) = LF
       THEN <<cur \o <<LF>>>> \o FileLines(Tail(text), << >>)
       ELSE FileLines(Tail(text), cur \o <<Head(text)>>)

\* line.rstrip("\n"): every trailing "\n" is removed
RECURSIVE rstrip(_)
rstrip(line) ==
  IF line # << >> /\ line[Len(line)] = LF
  THEN rstrip(SubSeq(line, 1, Len(line) - 1))
  ELSE line

\* payload = [line.rstrip("\n") for line in f]
ReadLines(text) ==
  LET ls == FileLines(TranslateNewlines(text), << >>)
  IN [i \in 1..Len(ls) |-> rstrip(ls[i])]

----------------------------------------------------------------------------
(* The metadata document *)

\* a value of "date_indexed": kind is "absent" (no such key), "empty" (""),
\* "number" (a JSON number), "garbage" (a string that is no timestamp) or
\* "iso" (an ISO-8601 timestamp of instant t, with or without UTC offset)
NoDate == [kind |-> "absent", t |-> 0, aware |-> FALSE]

\* datetime.now(timezone.utc).isoformat()
isoformat(t) == [kind |-> "iso", t |-> t, aware |-> TRUE]

\* the entry store_submission writes
NewEntry(t) == [isdict |-> TRUE, date_indexed |-> isoformat(t)]

\* an entry that is not a JSON object
NotADict == [isdict |-> FALSE, date_indexed |-> NoDate]

\* __init__: json.dump({}, f)
EmptyDocument == [kind |-> "object", items |-> << >>]

\* load_metadata as a loader that recovers nothing: a missing or unparseable
\* file yields no dict, and the caller fails on it
load_metadataUncaught(mf) ==
  [type |-> CASE mf.kind = "object" -> "dict"
              [] mf.kind = "array" -> "list"
              [] OTHER -> "int",
   items |-> mf.items, log |-> << >>]

\* _load_metadata: the parsed document, {} with a warning when the file is
\* missing or is not JSON; a JSON value that is no object is returned as is
load_metadata(mf) ==
  IF mf.kind \in {"missing", "invalid"}
  THEN [type |-> "dict", items |-> << >>,
        log |-> <<[level |-> "warning", what |-> "Cannot load metadata.json", arg |-> 0]>>]
  ELSE [type |-> CASE mf.kind = "object" -> "dict"
                   [] mf.kind = "array" -> "list"
                   [] OTHER -> "int",
        items |-> mf.items, log |-> << >>]

\* _save_metadata: json.dump(metadata, f, indent=2)
save_metadata(items) == [kind |-> "object", items |-> items]

\* dict operations on the ordered items of the document
HasKey(items, id) == \E i \in 1..Len(items) : items[i].id = id

GetItem(items, id) ==
  LET i == CHOOSE i \in 1..Len(items) : items[i].id = id IN items[i].data

\* SetItem as a store that keeps the entry an id already has
SetItemKeep(items, id, data) ==
  IF HasKey(items, id) THEN items
  ELSE Append(items, [id |-> id, data |-> data])

\* metadata[id] = data: replaces the value in place, or appends a new key
SetItem(items, id, data) ==
  IF HasKey(items, id)
  THEN [i \in 1..Len(items) |->
          IF items[i].id = id THEN [id |-> id, data |-> data] ELSE items[i]]
  ELSE Append(items, [id |-> id, data |-> data])

\* del metadata[id]
RECURSIVE DelItem(_, _)
DelItem(items, id) ==
  IF items = << >> THEN << >>
  ELSE IF Head(items).id = id THEN DelItem(Tail(items), id)
       ELSE <<Head(items)>> \o DelItem(Tail(items), id)

NumEntries(items, id) == Cardinality({i \in 1..Len(items) : items[i].id = id})

----------------------------------------------------------------------------
(* cleanup_submissions *)

Log(level, what, arg) == [level |-> level, what |-> what, arg |-> arg]

\* Classify as a comparison of calendar days instead of instants
ClassifyByDay(data, cutoff) ==
  IF ~data.isdict
  THEN [act |-> "raise", exc |-> "AttributeError"]
  ELSE LET d == data.date_indexed IN
       CASE d.kind \in {"absent", "empty"} -> [act |-> "skip", exc |-> "No date_indexed"]
         [] d.kind = "number" -> [act |-> "raise", exc |-> "TypeError"]
         [] d.kind = "garbage" -> [act |-> "skip", exc |-> "Cannot parse date"]
         [] OTHER -> IF ~d.aware THEN [act |-> "raise", exc |-> "TypeError"]
                     ELSE IF d.t \div Day < cutoff \div Day
                          THEN [act |-> "delete", exc |-> ""]
                          ELSE [act |-> "keep", exc |-> ""]

\* Classify as a comparison that also deletes an entry dated at the cutoff
ClassifyInclusive(data, cutoff) ==
  IF ~data.isdict
  THEN [act |-> "raise", exc |-> "AttributeError"]
  ELSE LET d == data.date_indexed IN
       CASE d.kind \in {"absent", "empty"} -> [act |-> "skip", exc |-> "No date_indexed"]
         [] d.kind = "number" -> [act |-> "raise", exc |-> "TypeError"]
         [] d.kind = "garbage" -> [act |-> "skip", exc |-> "Cannot parse date"]
         [] OTHER -> IF ~d.aware THEN [act |-> "raise", exc |-> "TypeError"]
                     ELSE IF d.t <= cutoff THEN [act |-> "delete", exc |-> ""]
                     ELSE [act |-> "keep", exc |-> ""]

\* one pass of the loop "for submission_id, data in metadata.items()" over a
\* single entry: "skip" (warning, continue), "raise" (an exception no except
\* clause catches), "delete" (to_delete.append) or "keep"
Classify(data, cutoff) ==
  IF ~data.isdict
  THEN [act |-> "raise", exc |-> "AttributeError"]
  ELSE LET d == data.date_indexed IN
       CASE d.kind \in {"absent", "empty"} -> [act |-> "skip", exc |-> "No date_indexed"]
         [] d.kind = "number" -> [act |-> "raise", exc |-> "TypeError"]
         [] d.kind = "garbage" -> [act |-> "skip", exc |-> "Cannot parse date"]
         [] OTHER -> IF ~d.aware THEN [act |-> "raise", exc |-> "TypeError"]
                     ELSE IF d.t < cutoff THEN [act |-> "delete", exc |-> ""]
                     ELSE [act |-> "keep", exc |-> ""]

\* the identification loop: the warnings logged, the ids marked, and the
\* exception that ended the loop ("" when it ran to its end)
RECURSIVE Scan(_, _)
Scan(items, cutoff) ==
  IF items = << >> THEN [log |-> << >>, to_delete |-> << >>, raised |-> ""]
  ELSE LET c == Classify(Head(items).data, cutoff)
           rest == Scan(Tail(items), cutoff)
       IN CASE c.act = "raise" -> [log |-> << >>, to_delete |-> << >>, raised |-> c.exc]
            [] c.act = "skip" -> [rest EXCEPT !.log = <<Log("warning", c.exc, 0)>> \o @]
            [] c.act = "delete" -> [rest EXCEPT !.to_delete = <<Head(items).id>> \o @]
            [] OTHER -> rest

\* Unlink as a loop that removes the entries and leaves the files
RECURSIVE UnlinkEntryOnly(_, _, _)
UnlinkEntryOnly(fs, items, to_delete) ==
  IF to_delete = << >> THEN [files |-> fs, items |-> items, log |-> << >>]
  ELSE UnlinkEntryOnly(fs, DelItem(items, Head(to_delete)), Tail(to_delete))

\* Unlink as a loop that stops at the first marked id whose file is gone
RECURSIVE UnlinkStrict(_, _, _)
UnlinkStrict(fs, items, to_delete) ==
  IF to_delete = << >> THEN [files |-> fs, items |-> items, log |-> << >>]
  ELSE LET id == Head(to_delete)
           rest == UnlinkStrict([fs EXCEPT ![id] = NoFile], DelItem(items, id),
                                Tail(to_delete))
       IN IF fs[id].exists
          THEN [rest EXCEPT !.log = <<Log("info", "Deleted file", 0)>> \o @]
          ELSE [files |-> fs, items |-> items, log |-> << >>]

\* the deletion loop: unlink each marked file that exists, del metadata[id]
RECURSIVE Unlink(_, _, _)
Unlink(fs, items, to_delete) ==
  IF to_delete = << >> THEN [files |-> fs, items |-> items, log |-> << >>]
  ELSE LET id == Head(to_delete)
           rest == Unlink([fs EXCEPT ![id] = NoFile], DelItem(items, id), Tail(to_delete))
       IN IF fs[id].exists
          THEN [rest EXCEPT !.log = <<Log("info", "Deleted file", 0)>> \o @]
          ELSE rest

\* the body of cleanup_submissions run at clock time t on directory (fs, mf):
\* the directory left behind, the messages logged, the exception raised, and
\* the number of times _save_metadata was called
Sweep(fs, mf, t, days) ==
  LET start == <<Log("info", "Cleaning up", days)>>
      md == load_metadata(mf)
      cutoff == t - days * Day
  IN IF md.type # "dict"
     THEN [files |-> fs, metadata_file |-> mf, log |-> start \o md.log,
           raised |-> "AttributeError", saves |-> 0]
     ELSE LET sc == Scan(md.items, cutoff) IN
          IF sc.raised # ""
          THEN [files |-> fs, metadata_file |-> mf, log |-> start \o md.log \o sc.log,
                raised |-> sc.raised, saves |-> 0]
          ELSE LET un == Unlink(fs, md.items, sc.to_delete) IN
               [files |-> un.files,
                metadata_file |-> save_metadata(un.items),
                log |-> start \o md.log \o sc.log \o un.log \o
                        <<IF sc.to_delete # << >>
                          THEN Log("info", "Deleted submissions", Len(sc.to_delete))
                          ELSE Log("info", "No old submissions", 0)>>,
                raised |-> "", saves |-> 1]

----------------------------------------------------------------------------
(* The calls.  last is the most recent event on the directory: the call, *)
(* its arguments, what it returned or raised, and what it logged; for a  *)
(* store also the clock at its start (t0) and end (t1), whether it      *)
(* overwrote a payload file of different content (overwrite) and        *)
(* whether it replaced a metadata entry of different value (replaced).  *)

NoCall == [op |-> "none", id |-> "", payload |-> << >>, days |-> 0,
           outcome |-> "ok", ret_payload |-> << >>, ret_metadata |-> << >>,
           log |-> << >>, t0 |-> 0, t1 |-> 0, overwrite |-> FALSE,
           replaced |-> FALSE]

\* the processes that use the directory
Callers == {"A", "B"}

\* a process outside every call; inside a call, pc is the statement it is
\* about to run, loaded what its _load_metadata returned, to_delete the ids
\* its cleanup loop marked, nested whether the cleanup runs inside a store;
\* stale records that it has saved a document loaded before another save
Idle == [pc |-> "idle", id |-> "", payload |-> << >>, days |-> 0,
         loaded |-> [type |-> "dict", items |-> << >>, log |-> << >>],
         to_delete |-> << >>, nested |-> FALSE, stale |-> FALSE]

\* __init__ on a fresh directory: no payload file, metadata.json holds {}
Init ==
  /\ files = [id \in Ids |-> NoFile]
  /\ metadata_file = EmptyDocument
  /\ now = 0
  /\ last = NoCall
  /\ edits = 0
  /\ callers = [c \in Callers |-> Idle]

\* InitDocument as a constructor that always writes the empty document
InitDocumentAlways(mf) == EmptyDocument

\* if not self.metadata_file.exists(): json.dump({}, f)
InitDocument(mf) == IF mf.kind = "missing" THEN EmptyDocument ELSE mf

\* SimplePersistence(base_path, logger) on the directory as it is now:
\* mkdir(exist_ok=True), then metadata.json is created if it is absent
SimplePersistence ==
  /\ metadata_file' = InitDocument(metadata_file)
  /\ last' = [NoCall EXCEPT !.op = "init"]
  /\ UNCHANGED <<files, now, edits, callers>>

\* store_submission(submission_id, payload); the clock is read for
\* date_indexed and, e ticks later, by the sweep
store_submission(id, payload) ==
  \E e \in Elapsed :
    /\ ClockOK(now + e)
    /\ LET fs1 == [files EXCEPT ![id] = [exists |-> TRUE, text |-> WriteLines(payload)]]
           md == load_metadata(metadata_file)
           call == [NoCall EXCEPT !.op = "store", !.id = id, !.payload = payload,
                                  !.t0 = now, !.t1 = now + e,
                                  !.overwrite = /\ files[id].exists
                                                /\ files[id].text # WriteLines(payload),
                                  !.replaced = /\ md.type = "dict"
                                               /\ HasKey(md.items, id)
                                               /\ GetItem(md.items, id) # NewEntry(now)]
       IN IF md.type # "dict"
          THEN /\ files' = fs1
               /\ metadata_file' = metadata_file
               /\ last' = [call EXCEPT !.outcome = "TypeError", !.log = md.log]
          ELSE LET mf1 == save_metadata(SetItem(md.items, id, NewEntry(now)))
                   sw == Sweep(fs1, mf1, now + e, DefaultDays)
               IN /\ files' = sw.files
                  /\ metadata_file' = sw.metadata_file
                  /\ last' = [call EXCEPT
                       !.outcome = IF sw.raised = "" THEN "ok" ELSE sw.raised,
                       !.log = md.log \o sw.log \o
                               (IF sw.raised = ""
                                THEN <<Log("info", "Stored submission", 0)>>
                                ELSE << >>)]
    /\ now' = now + e
    /\ UNCHANGED <<edits, callers>>

\* Load as a read that does not sweep
LoadNoSweep(id, t) ==
  LET quiet == [files |-> files, metadata_file |-> metadata_file,
                payload |-> << >>, metadata |-> << >>]
  IN IF ~files[id].exists
     THEN quiet @@ [outcome |-> "NotFound",
                    log |-> <<Log("error", "Submission file not found", 0)>>]
     ELSE LET payload == ReadLines(files[id].text)
              md == load_metadata(metadata_file)
          IN CASE md.type = "int" ->
                    quiet @@ [outcome |-> "TypeError", log |-> md.log]
               [] md.type = "list" \/ ~HasKey(md.items, id) ->
                    quiet @@ [outcome |-> "NotFound",
                              log |-> md.log \o <<Log("error", "No metadata for submission", 0)>>]
               [] OTHER ->
                    [files |-> files, metadata_file |-> metadata_file,
                     payload |-> <<payload>>,
                     metadata |-> <<GetItem(md.items, id)>>,
                     outcome |-> "ok",
                     log |-> md.log \o <<Log("info", "Loaded submission", 0)>>]

\* Load as a read that refreshes date_indexed of the submission it returns
LoadTouch(id, t) ==
  LET quiet == [files |-> files, metadata_file |-> metadata_file,
                payload |-> << >>, metadata |-> << >>]
  IN IF ~files[id].exists
     THEN quiet @@ [outcome |-> "NotFound",
                    log |-> <<Log("error", "Submission file not found", 0)>>]
     ELSE LET payload == ReadLines(files[id].text)
              md == load_metadata(metadata_file)
          IN CASE md.type = "int" ->
                    quiet @@ [outcome |-> "TypeError", log |-> md.log]
               [] md.type = "list" \/ ~HasKey(md.items, id) ->
                    quiet @@ [outcome |-> "NotFound",
                              log |-> md.log \o <<Log("error", "No metadata for submission", 0)>>]
               [] OTHER ->
                    LET sw == Sweep(files,
                                    save_metadata(SetItem(md.items, id, NewEntry(t))),
                                    t, DefaultDays)
                        ok == sw.raised = ""
                    IN [files |-> sw.files, metadata_file |-> sw.metadata_file,
                        payload |-> IF ok THEN <<payload>> ELSE << >>,
                        metadata |-> IF ok THEN <<GetItem(md.items, id)>> ELSE << >>,
                        outcome |-> IF ok THEN "ok" ELSE sw.raised,
                        log |-> md.log \o <<Log("info", "Loaded submission", 0)>> \o sw.log]

\* Load as a read that sweeps before it reads the file and the entry
LoadSweepFirst(id, t) ==
  LET sw == Sweep(files, metadata_file, t, DefaultDays)
      quiet == [files |-> sw.files, metadata_file |-> sw.metadata_file,
                payload |-> << >>, metadata |-> << >>]
      md == load_metadata(sw.metadata_file)
  IN IF sw.raised # ""
     THEN quiet @@ [outcome |-> sw.raised, log |-> sw.log]
     ELSE IF ~sw.files[id].exists
     THEN quiet @@ [outcome |-> "NotFound",
                    log |-> sw.log \o <<Log("error", "Submission file not found", 0)>>]
     ELSE IF ~HasKey(md.items, id)
     THEN quiet @@ [outcome |-> "NotFound",
                    log |-> sw.log \o <<Log("error", "No metadata for submission", 0)>>]
     ELSE [files |-> sw.files, metadata_file |-> sw.metadata_file,
           payload |-> <<ReadLines(sw.files[id].text)>>,
           metadata |-> <<GetItem(md.items, id)>>,
           outcome |-> "ok",
           log |-> sw.log \o <<Log("info", "Loaded submission", 0)>>]

\* the body of load_submission(submission_id), its sweep run at clock time t
Load(id, t) ==
  LET quiet == [files |-> files, metadata_file |-> metadata_file,
                payload |-> << >>, metadata |-> << >>]
  IN IF ~files[id].exists
     THEN quiet @@ [outcome |-> "NotFound",
                    log |-> <<Log("error", "Submission file not found", 0)>>]
     ELSE LET payload == ReadLines(files[id].text)
              md == load_metadata(metadata_file)
          IN CASE md.type = "int" ->
                    quiet @@ [outcome |-> "TypeError", log |-> md.log]
               [] md.type = "list" \/ ~HasKey(md.items, id) ->
                    quiet @@ [outcome |-> "NotFound",
                              log |-> md.log \o <<Log("error", "No metadata for submission", 0)>>]
               [] OTHER ->
                    LET sw == Sweep(files, metadata_file, t, DefaultDays)
                        ok == sw.raised = ""
                    IN [files |-> sw.files, metadata_file |-> sw.metadata_file,
                        payload |-> IF ok THEN <<payload>> ELSE << >>,
                        metadata |-> IF ok THEN <<GetItem(md.items, id)>> ELSE << >>,
                        outcome |-> IF ok THEN "ok" ELSE sw.raised,
                        log |-> md.log \o <<Log("info", "Loaded submission", 0)>> \o sw.log]

\* load_submission(submission_id): returns {"payload", "metadata"}
load_submission(id) ==
  \E e \in Elapsed :
    /\ ClockOK(now + e)
    /\ LET r == Load(id, now + e)
       IN /\ files' = r.files
          /\ metadata_file' = r.metadata_file
          /\ last' = [NoCall EXCEPT !.op = "load", !.id = id,
                                    !.outcome = r.outcome, !.log = r.log,
                                    !.ret_payload = r.payload,
                                    !.ret_metadata = r.metadata]
    /\ now' = now + e
    /\ UNCHANGED <<edits, callers>>

\* load_only_payload(submission_id): load_submission(...)["payload"]
load_only_payload(id) ==
  \E e \in Elapsed :
    /\ ClockOK(now + e)
    /\ LET r == Load(id, now + e)
       IN /\ files' = r.files
          /\ metadata_file' = r.metadata_file
          /\ last' = [NoCall EXCEPT !.op = "load_only_payload", !.id = id,
                                    !.outcome = r.outcome, !.log = r.log,
                                    !.ret_payload = r.payload]
    /\ now' = now + e
    /\ UNCHANGED <<edits, callers>>

\* cleanup_submissions(older_than_days)
cleanup_submissions(days) ==
  LET sw == Sweep(files, metadata_file, now, days)
  IN /\ files' = sw.files
     /\ metadata_file' = sw.metadata_file
     /\ last' = [NoCall EXCEPT !.op = "cleanup", !.days = days,
                               !.outcome = IF sw.raised = "" THEN "ok" ELSE sw.raised,
                               !.log = sw.log]
     /\ UNCHANGED <<now, edits, callers>>

\* datetime.now(timezone.utc) moves on between calls
Tick(d) ==
  /\ ClockOK(now + d)
  /\ now' = now + d
  /\ UNCHANGED <<files, metadata_file, last, edits, callers>>

----------------------------------------------------------------------------
(* The directory is changed from outside the class *)

Edited == [NoCall EXCEPT !.op = "edit"]

\* values of one entry an outside edit may write
EditData ==
  {NotADict} \cup
  {[isdict |-> TRUE, date_indexed |-> d] :
     d \in {NoDate,
            [kind |-> "empty", t |-> 0, aware |-> FALSE],
            [kind |-> "number", t |-> 0, aware |-> FALSE],
            [kind |-> "garbage", t |-> 0, aware |-> FALSE]}
           \cup {[kind |-> "iso", t |-> now - a, aware |-> tz] : a \in Ages, tz \in BOOLEAN}}

\* metadata.json is deleted ("missing"), or overwritten with text that is
\* not JSON ("invalid"), with [] ("array") or with a number
EditDocument(kind) ==
  /\ edits < MaxEdits
  /\ metadata_file' = [kind |-> kind, items |-> << >>]
  /\ edits' = edits + 1
  /\ last' = Edited
  /\ UNCHANGED <<files, now, callers>>

\* one entry of a well-formed metadata.json is written by hand
EditEntry(id, data) ==
  /\ edits < MaxEdits
  /\ metadata_file.kind = "object"
  /\ metadata_file' = save_metadata(SetItem(metadata_file.items, id, data))
  /\ edits' = edits + 1
  /\ last' = Edited
  /\ UNCHANGED <<files, now, callers>>

----------------------------------------------------------------------------
(* The calls statement by statement.  A process runs store_submission and *)
(* cleanup_submissions as the sequence of their file operations; between  *)
(* two of them another process may run, or the process may stop for good. *)
(* What these calls log is not kept.                                      *)

\* the payload stored by interleaved processes: ["a"]
PayloadsMT == { << <<"a">> >> }

\* payloads stored by a process that may stop: ["a"] and ["b"]
PayloadsCrash == { << <<"a">> >>, << <<"b">> >> }

AllIdle == \A c \in Callers : callers[c].pc = "idle"

\* the call of process c has returned or raised: last is that call
Finish(c, outcome) ==
  /\ callers' = [callers EXCEPT ![c] = [Idle EXCEPT !.stale = callers[c].stale]]
  /\ last' = [NoCall EXCEPT
                !.op = IF callers[c].nested \/ callers[c].pc = "store_save"
                       THEN "store" ELSE "cleanup",
                !.id = callers[c].id,
                !.payload = callers[c].payload,
                !.days = IF callers[c].nested THEN 0 ELSE callers[c].days,
                !.outcome = outcome]

\* BeginStore as a store that saves the entry before it writes the file
BeginStoreEntryFirst(c, id, payload) ==
  /\ callers[c].pc = "idle"
  /\ metadata_file' =
       save_metadata(SetItem(load_metadata(metadata_file).items, id, NewEntry(now)))
  /\ files' = [files EXCEPT ![id] = [exists |-> TRUE, text |-> WriteLines(payload)]]
  /\ callers' = [callers EXCEPT ![c] = [@ EXCEPT !.pc = "store_load", !.id = id,
                                                 !.payload = payload]]
  /\ UNCHANGED <<now, last, edits>>

\* store_submission, lines 71-74: the payload file is written
BeginStore(c, id, payload) ==
  /\ callers[c].pc = "idle"
  /\ files' = [files EXCEPT ![id] = [exists |-> TRUE, text |-> WriteLines(payload)]]
  /\ callers' = [callers EXCEPT ![c] = [@ EXCEPT !.pc = "store_load", !.id = id,
                                                 !.payload = payload]]
  /\ UNCHANGED <<metadata_file, now, last, edits>>

\* store_submission, line 76: metadata = self._load_metadata()
StoreLoad(c) ==
  /\ callers[c].pc = "store_load"
  /\ callers' = [callers EXCEPT ![c] = [@ EXCEPT !.pc = "store_save",
                                                 !.loaded = load_metadata(metadata_file)]]
  /\ UNCHANGED <<files, metadata_file, now, last, edits>>

\* StoreSave as a store that goes on to its sweep without saving the entry
StoreSaveSkip(c) ==
  /\ callers[c].pc = "store_save"
  /\ callers' = [callers EXCEPT ![c] = [@ EXCEPT !.pc = "cleanup_load",
                                                 !.days = DefaultDays,
                                                 !.nested = TRUE]]
  /\ UNCHANGED <<files, metadata_file, now, last, edits>>

\* store_submission, lines 77-80: the entry is set in the document loaded
\* at line 76, the document is saved, and cleanup_submissions() is entered
StoreSave(c) ==
  /\ callers[c].pc = "store_save"
  /\ LET me == callers[c] IN
     IF me.loaded.type # "dict"
     THEN /\ Finish(c, "TypeError")
          /\ UNCHANGED <<files, metadata_file, now, edits>>
     ELSE /\ metadata_file' = save_metadata(SetItem(me.loaded.items, me.id, NewEntry(now)))
          /\ callers' = [callers EXCEPT ![c] =
               [@ EXCEPT !.pc = "cleanup_load", !.days = DefaultDays, !.nested = TRUE,
                         !.stale = @ \/ metadata_file # save_metadata(me.loaded.items)]]
          /\ UNCHANGED <<files, now, last, edits>>

\* cleanup_submissions(older_than_days) is called, line 146
BeginCleanup(c, days) ==
  /\ callers[c].pc = "idle"
  /\ callers' = [callers EXCEPT ![c] = [@ EXCEPT !.pc = "cleanup_load", !.days = days]]
  /\ UNCHANGED <<files, metadata_file, now, last, edits>>

\* cleanup_submissions, lines 147-170: the document is loaded and the ids
\* to delete are marked
CleanupLoad(c) ==
  /\ callers[c].pc = "cleanup_load"
  /\ LET me == callers[c]
         md == load_metadata(metadata_file)
         sc == Scan(md.items, now - me.days * Day)
     IN IF md.type # "dict"
        THEN Finish(c, "AttributeError")
        ELSE IF sc.raised # ""
        THEN Finish(c, sc.raised)
        ELSE /\ callers' = [callers EXCEPT ![c] =
                  [@ EXCEPT !.pc = "cleanup_unlink", !.loaded = md,
                            !.to_delete = sc.to_delete]]
             /\ UNCHANGED last
  /\ UNCHANGED <<files, metadata_file, now, edits>>

\* cleanup_submissions, lines 173-180: the marked files are unlinked and the
\* marked entries deleted from the document in memory
CleanupUnlink(c) ==
  /\ callers[c].pc = "cleanup_unlink"
  /\ files' = Unlink(files, callers[c].loaded.items, callers[c].to_delete).files
  /\ callers' = [callers EXCEPT ![c] = [@ EXCEPT !.pc = "cleanup_save"]]
  /\ UNCHANGED <<metadata_file, now, last, edits>>

\* cleanup_submissions, line 183: the document in memory is saved; the call
\* returns, and the store_submission that made it returns too
CleanupSave(c) ==
  /\ callers[c].pc = "cleanup_save"
  /\ LET me == callers[c] IN
     /\ metadata_file' = save_metadata(Unlink(files, me.loaded.items, me.to_delete).items)
     /\ callers' = [callers EXCEPT ![c] =
          [Idle EXCEPT !.stale = me.stale \/ metadata_file # save_metadata(me.loaded.items)]]
     /\ last' = [NoCall EXCEPT !.op = IF me.nested THEN "store" ELSE "cleanup",
                               !.id = me.id, !.payload = me.payload,
                               !.days = IF me.nested THEN 0 ELSE me.days]
  /\ UNCHANGED <<files, now, edits>>

\* the process stops inside a call and never runs its remaining statements
Crash(c) ==
  /\ callers[c].pc # "idle"
  /\ callers' = [callers EXCEPT ![c] = [Idle EXCEPT !.stale = callers[c].stale]]
  /\ last' = [NoCall EXCEPT !.op = "crash", !.id = callers[c].id,
                            !.payload = callers[c].payload,
                            !.outcome = callers[c].pc]
  /\ UNCHANGED <<files, metadata_file, now, edits>>

\* the statements of process c, which stores payloads of the given set
Call(c, payloads) ==
  \/ \E id \in Ids, payload \in payloads : BeginStore(c, id, payload)
  \/ StoreLoad(c)
  \/ StoreSave(c)
  \/ BeginCleanup(c, 0)
  \/ CleanupLoad(c)
  \/ CleanupUnlink(c)
  \/ CleanupSave(c)

----------------------------------------------------------------------------
(* Specifications *)

\* a single caller and the clock
Next ==
  \/ \E id \in Ids, payload \in Payloads : store_submission(id, payload)
  \/ \E id \in Ids : load_submission(id)
  \/ \E id \in Ids : load_only_payload(id)
  \/ \E days \in Thresholds : cleanup_submissions(days)
  \/ \E d \in Advances : Tick(d)

Spec == Init /\ [][Next]_vars

\* a single caller, the clock, and outside changes of metadata.json
NextFS ==
  \/ \E id \in Ids, payload \in PayloadsFS : store_submission(id, payload)
  \/ \E id \in Ids : load_submission(id)
  \/ \E id \in Ids : load_only_payload(id)
  \/ \E days \in Thresholds : cleanup_submissions(days)
  \/ \E d \in Advances : Tick(d)
  \/ \E kind \in {"missing", "invalid", "array", "number"} : EditDocument(kind)
  \/ \E id \in Ids, data \in EditData : EditEntry(id, data)
  \/ SimplePersistence

SpecFS == Init /\ [][NextFS]_vars

\* two processes on one directory, their statements interleaved
NextMT ==
  \/ \E c \in Callers : Call(c, PayloadsMT)
  \/ \E id \in Ids : AllIdle /\ load_submission(id)
  \/ Tick(1)

SpecMT == Init /\ [][NextMT]_vars

\* one process that may stop inside a call, and starts again
NextCrash ==
  \/ Call("A", PayloadsCrash)
  \/ Crash("A")
  \/ \E id \in Ids : AllIdle /\ load_submission(id)
  \/ Tick(1)

SpecCrash == Init /\ [][NextCrash]_vars

----------------------------------------------------------------------------
(* Vocabulary of the claims *)

Loads == {"load", "load_only_payload"}

\* the metadata document, as _load_metadata parses it, has an entry for id
Indexed(id) == metadata_file.kind = "object" /\ HasKey(metadata_file.items, id)

Entry(id) == GetItem(metadata_file.items, id)

DateOf(id) == Entry(id).date_indexed

\* number of sweeps with the given threshold a call's log shows
Sweeps(log, days) ==
  Cardinality({i \in 1..Len(log) : log[i].what = "Cleaning up" /\ log[i].arg = days})

AllSweeps(log) == Cardinality({i \in 1..Len(log) : log[i].what = "Cleaning up"})

Logged(log, level) == \E i \in 1..Len(log) : log[i].level = level

----------------------------------------------------------------------------
(* C1 *)

\* C1 (round trip): a load of id that follows a store of id returns, and its
\* payload is the stored payload, line for line.
C1_RoundTrip ==
  [][\A id \in Ids :
       (last.op = "store" /\ last.id = id /\ last.outcome = "ok" /\ load_submission(id))
         => (last'.outcome = "ok" /\ last'.ret_payload = <<last.payload>>)]_vars

----------------------------------------------------------------------------
(* C2 *)

\* C2 (full overwrite): a load of id that follows a store of id which
\* overwrote a different payload returns exactly the second payload, and the
\* document holds one entry for id.
C2_FullOverwrite ==
  [][\A id \in Ids :
       (/\ last.op = "store" /\ last.id = id /\ last.outcome = "ok"
        /\ last.overwrite
        /\ load_submission(id))
         => (/\ last'.outcome = "ok"
             /\ last'.ret_payload = <<last.payload>>
             /\ NumEntries(metadata_file.items, id) = 1)]_vars

----------------------------------------------------------------------------
(* C3 *)

\* C3 (NotFound exactly): a load of id fails with NotFound, after logging an
\* error, exactly when the payload file of id is absent or the document has
\* no entry for id; in every other case it returns the payload read from the
\* file and the entry.
C3_NotFoundExactly ==
  [][\A id \in Ids :
       load_submission(id) =>
         IF ~files[id].exists \/ ~Indexed(id)
         THEN last'.outcome = "NotFound" /\ Logged(last'.log, "error")
         ELSE /\ last'.outcome = "ok"
              /\ last'.ret_payload = <<ReadLines(files[id].text)>>
              /\ last'.ret_metadata = <<Entry(id)>>]_vars

----------------------------------------------------------------------------
(* C4 *)

\* an entry whose timestamp is earlier than the default cutoff at time t
Expired(id, t) ==
  /\ Indexed(id)
  /\ Entry(id).isdict
  /\ DateOf(id).kind = "iso"
  /\ DateOf(id).aware
  /\ DateOf(id).t < t - DefaultDays * Day

\* C4 as claimed (sweep on every access): every store and every load, whatever
\* its outcome, performs one sweep with the default threshold.
C4_SweepOnEveryAccess ==
  last.op \in {"store"} \cup Loads =>
    Sweeps(last.log, DefaultDays) = 1 /\ AllSweeps(last.log) = 1

\* C4 as amended (sweep on return): a store or load that returns has performed
\* exactly one sweep, with the default threshold, which left no expired entry
\* behind; a load that fails with NotFound performs no sweep and leaves the
\* directory as it was.
C4_SweepOnReturn ==
  [][\A id \in Ids :
       (\/ \E p \in Payloads : store_submission(id, p)
        \/ load_submission(id)
        \/ load_only_payload(id))
       => /\ last'.outcome = "ok" =>
               /\ Sweeps(last'.log, DefaultDays) = 1
               /\ AllSweeps(last'.log) = 1
               /\ \A j \in Ids : ~Expired(j, now)'
          /\ last'.outcome = "NotFound" =>
               /\ AllSweeps(last'.log) = 0
               /\ UNCHANGED <<files, metadata_file>>]_vars

\* a load has failed with NotFound and an expired submission is still there
C4_Witness ==
  /\ last.op \in Loads
  /\ last.outcome = "NotFound"
  /\ \E j \in Ids : Expired(j, now) /\ files[j].exists

----------------------------------------------------------------------------
(* C5 *)

\* C5 (eviction selectivity): cleanup(d) removes the file and the entry of
\* exactly the submissions whose date_indexed is a timestamp earlier than
\* now - d days, and leaves the file and entry of every other one unchanged.
C5_EvictionSelectivity ==
  [][\A d \in Thresholds :
       cleanup_submissions(d) =>
         \A id \in Ids :
           IF /\ Indexed(id)
              /\ Entry(id).isdict
              /\ DateOf(id).kind = "iso"
              /\ DateOf(id).t < now - d * Day
           THEN ~files'[id].exists /\ ~Indexed(id)'
           ELSE /\ files'[id] = files[id]
                /\ Indexed(id)' <=> Indexed(id)
                /\ Indexed(id) => Entry(id)' = Entry(id)]_vars

----------------------------------------------------------------------------
(* C6 *)

\* an entry whose date_indexed is missing, empty, or no timestamp
Malformed(id) ==
  /\ Indexed(id)
  /\ Entry(id).isdict
  /\ DateOf(id).kind \in {"absent", "empty", "garbage", "number"}

\* C6 (eviction conservatism): a cleanup over a document with a malformed
\* entry completes without error and leaves that entry and its payload file
\* as they were.
C6_EvictionConservatism ==
  [][\A d \in Thresholds :
       cleanup_submissions(d) =>
         \A id \in Ids :
           Malformed(id) =>
             /\ last'.outcome = "ok"
             /\ Indexed(id)'
             /\ Entry(id)' = Entry(id)
             /\ files'[id] = files[id]]_vars

----------------------------------------------------------------------------
(* C7 *)

\* id was stored less than a day before now
StoredToday(id) ==
  /\ files[id].exists
  /\ Indexed(id)
  /\ DateOf(id).kind = "iso" /\ DateOf(id).aware
  /\ DateOf(id).t <= now
  /\ now - DateOf(id).t < Day

\* C7 as claimed (threshold 0 keeps today's submissions): cleanup(0) run while
\* both submissions were stored the same day removes neither.
C7_ZeroThresholdRetainsToday ==
  [][(cleanup_submissions(0) /\ \A id \in Ids : StoredToday(id))
       => \A id \in Ids : files'[id].exists /\ Indexed(id)']_vars

\* C7 as amended (threshold 0 keeps only what is not earlier than now):
\* cleanup(0) removes the file and entry of every submission stored at an
\* earlier instant, the same day included, and keeps one only when the clock
\* has not advanced since its store.
C7_ZeroThresholdRemovesEarlier ==
  [][cleanup_submissions(0) =>
       \A id \in Ids :
         (files[id].exists /\ Indexed(id)) =>
           IF DateOf(id).t < now
           THEN ~files'[id].exists /\ ~Indexed(id)'
           ELSE files'[id] = files[id] /\ Indexed(id)' /\ Entry(id)' = Entry(id)]_vars

\* within the first day, a cleanup(0) has deleted two submissions: none is left
C7_Witness ==
  /\ last.op = "cleanup" /\ last.days = 0 /\ last.outcome = "ok"
  /\ now < Day
  /\ \E i \in 1..Len(last.log) :
       last.log[i].what = "Deleted submissions" /\ last.log[i].arg = 2
  /\ \A id \in Ids : ~files[id].exists /\ ~Indexed(id)

----------------------------------------------------------------------------
(* C8 *)

\* C8 (only NotFound reaches the caller): store and cleanup never raise, and
\* load raises nothing but NotFound, whatever metadata.json holds.
C8_OnlyNotFound ==
  /\ last.op \in {"store", "cleanup"} => last.outcome = "ok"
  /\ last.op \in Loads => last.outcome \in {"ok", "NotFound"}

----------------------------------------------------------------------------
(* C9 *)

\* C9 (store stamps the call time): after a store of id has returned, the
\* entry of id is a timezone-aware timestamp of an instant between the start
\* and the end of that call, whether or not id had an entry before.
C9_StoreStampsCallTime ==
  (last.op = "store" /\ last.outcome = "ok") =>
    /\ Indexed(last.id)
    /\ NumEntries(metadata_file.items, last.id) = 1
    /\ Entry(last.id).isdict
    /\ DateOf(last.id).kind = "iso"
    /\ DateOf(last.id).aware
    /\ last.t0 <= DateOf(last.id).t
    /\ DateOf(last.id).t <= last.t1

\* a store has replaced an entry of an earlier date by one of its own time
C9_Witness ==
  /\ last.op = "store" /\ last.outcome = "ok"
  /\ last.replaced
  /\ last.t0 > 0
  /\ Indexed(last.id)
  /\ DateOf(last.id).t = last.t0

----------------------------------------------------------------------------
(* C10 *)

\* C10 (reads keep date_indexed): a load or load_only_payload, returning or
\* failing, creates no entry and leaves every entry still present afterwards
\* as it was.
C10_ReadKeepsDates ==
  [][\A id \in Ids :
       (load_submission(id) \/ load_only_payload(id)) =>
         \A j \in Ids :
           Indexed(j)' => (Indexed(j) /\ Entry(j)' = Entry(j))]_vars

\* a load has returned an entry dated before now, and the entry is still so
C10_Witness ==
  /\ last.op \in Loads /\ last.outcome = "ok"
  /\ Indexed(last.id)
  /\ DateOf(last.id).t < now
  /\ last.op = "load" => last.ret_metadata = <<Entry(last.id)>>

----------------------------------------------------------------------------
(* C11 *)

\* C11 (initialization): constructing the store on a directory without
\* metadata.json writes the empty document; constructing it on a directory
\* that holds a metadata.json leaves the document and every payload file as
\* they were, so that every id loads as before, with the same payload and
\* the same entry.
C11_InitKeepsStore ==
  [][SimplePersistence =>
       /\ files' = files
       /\ IF metadata_file.kind = "missing"
          THEN metadata_file' = EmptyDocument
          ELSE metadata_file' = metadata_file
       /\ metadata_file.kind = "missing" =>
            load_metadata(metadata_file') = [type |-> "dict", items |-> << >>, log |-> << >>]
       /\ \A id \in Ids :
            (files[id].exists /\ Indexed(id)) =>
              /\ files'[id].exists /\ Indexed(id)'
              /\ ReadLines(files'[id].text) = ReadLines(files[id].text)
              /\ Entry(id)' = Entry(id)]_vars

\* the store has been constructed again on a directory holding a submission
C11_Witness ==
  /\ last.op = "init"
  /\ \E id \in Ids : files[id].exists /\ Indexed(id)

----------------------------------------------------------------------------
(* C12 *)

\* C12 (pairing): with a single caller and no outside change of the
\* directory, after every completed call an id has a payload file exactly
\* when the document has an entry for it.
C12_Pairing ==
  \A id \in Ids : files[id].exists <=> Indexed(id)

\* a cleanup has removed one submission, file and entry, and kept the other
C12_Witness ==
  /\ last.op = "cleanup" /\ last.outcome = "ok"
  /\ \E i \in 1..Len(last.log) :
       last.log[i].what = "Deleted submissions" /\ last.log[i].arg = 1
  /\ \E id \in Ids : files[id].exists /\ Indexed(id)
  /\ \E id \in Ids : ~files[id].exists /\ ~Indexed(id)

----------------------------------------------------------------------------
(* C13 *)

\* the store that returned last has lost its update: its payload file is
\* there, no process is writing that id, and the document has no entry
LostUpdate ==
  /\ last.op = "store" /\ last.outcome = "ok"
  /\ files[last.id].exists
  /\ ~Indexed(last.id)
  /\ \A c \in Callers : callers[c].pc # "idle" => callers[c].id # last.id

\* some process saved a document it had loaded before another save
StaleSave == \E c \in Callers : callers[c].stale

\* C13 (lost update): with two interleaved processes a store can return and
\* leave a payload file whose entry is missing; this happens only after a
\* process has saved a document loaded before another process's save, and a
\* load of that id then fails with NotFound.
C13_LostUpdateByStaleSave ==
  LostUpdate =>
    /\ StaleSave
    /\ Load(last.id, now).outcome = "NotFound"

\* a store has returned, every process is outside its calls, and the entry of
\* the stored id is missing while its file is there
C13_Witness ==
  /\ LostUpdate
  /\ AllIdle
  /\ StaleSave

----------------------------------------------------------------------------
(* C14 *)

\* process c has written the payload file of its store and not yet saved
\* the document
MidStore(c) == callers[c].pc \in {"store_load", "store_save"}

\* a payload file without an entry
Orphan(id) == files[id].exists /\ ~Indexed(id)

\* C14 as claimed (a crash inside store leaves an orphan): when a store of id
\* stops between the write of the file and the save of the document, id has
\* a payload file and no entry, and a load of id fails with NotFound.
C14_CrashLeavesOrphan ==
  [][\A c \in Callers, id \in Ids :
       (Crash(c) /\ MidStore(c) /\ callers[c].id = id) =>
         /\ Orphan(id)'
         /\ Load(id, now)'.outcome = "NotFound"]_vars

\* C14 as amended (a crash inside store keeps the entry as it was): up to
\* the save of the document a store changes nothing but the payload file of
\* its id; when it stops there, an id that had no entry has a file without
\* entry and its load fails with NotFound, while an id that had an entry
\* keeps that entry and its load returns the new payload with the old entry;
\* a file without entry stays so until a store of that id saves its entry.
C14_CrashKeepsEntry ==
  [][\A c \in Callers :
       /\ \A id \in Ids, p \in PayloadsCrash :
            BeginStore(c, id, p) =>
              /\ metadata_file' = metadata_file
              /\ \A j \in Ids \ {id} : files'[j] = files[j]
       /\ StoreLoad(c) => UNCHANGED <<files, metadata_file>>
       /\ \A id \in Ids, p \in PayloadsCrash :
            (Crash(c) /\ MidStore(c) /\ callers[c].id = id /\ callers[c].payload = p) =>
              /\ UNCHANGED <<files, metadata_file>>
              /\ files[id] = [exists |-> TRUE, text |-> WriteLines(p)]
              /\ IF Indexed(id)
                 THEN /\ Load(id, now)'.outcome = "ok"
                      /\ Load(id, now)'.payload = <<p>>
                      /\ Load(id, now)'.metadata = <<Entry(id)>>
                 ELSE /\ Orphan(id)'
                      /\ Load(id, now)'.outcome = "NotFound"
       /\ \A id \in Ids :
            (Orphan(id) /\ ~(\E d \in Callers : callers[d].id = id /\ StoreSave(d))) =>
              /\ Orphan(id)'
              /\ Load(id, now)'.outcome = "NotFound"]_vars

\* a store over a submission stored earlier has stopped before its save: the
\* file holds the new payload and the entry is the one of the earlier store
C14_Witness ==
  /\ last.op = "crash" /\ last.outcome \in {"store_load", "store_save"}
  /\ AllIdle
  /\ Indexed(last.id)
  /\ DateOf(last.id).t < now
  /\ files[last.id].text = WriteLines(last.payload)
  /\ \E p \in PayloadsCrash : p # last.payload

----------------------------------------------------------------------------
(* C15 *)

\* metadata.json is missing or is not JSON
Lost == metadata_file.kind \in {"missing", "invalid"}

\* C15 (a lost document is an empty document): on a missing or unparseable
\* metadata.json, store writes back a document whose only entry is the id
\* stored and cleanup writes back the empty document, both after a warning
\* and without touching another payload file; the files left without entry
\* fail to load with NotFound and are kept by every cleanup, load and store
\* of another id.
C15_LostIsEmpty ==
  [][/\ \A id \in Ids, p \in PayloadsFS :
          (Lost /\ store_submission(id, p)) =>
            /\ last'.outcome = "ok"
            /\ Logged(last'.log, "warning")
            /\ metadata_file' = save_metadata(<<[id |-> id, data |-> NewEntry(now)]>>)
            /\ \A j \in Ids \ {id} :
                 /\ files'[j] = files[j]
                 /\ files[j].exists => Orphan(j)'
     /\ \A d \in Thresholds :
          (Lost /\ cleanup_submissions(d)) =>
            /\ last'.outcome = "ok"
            /\ Logged(last'.log, "warning")
            /\ metadata_file' = EmptyDocument
            /\ files' = files
     /\ \A j \in Ids :
          Orphan(j) =>
            /\ (metadata_file.kind \in {"object", "missing", "invalid"}
                  /\ (load_submission(j) \/ load_only_payload(j))) =>
                 /\ last'.outcome = "NotFound"
                 /\ UNCHANGED <<files, metadata_file>>
            /\ (\/ \E d \in Thresholds : cleanup_submissions(d)
                \/ \E i \in Ids : load_submission(i) \/ load_only_payload(i)
                \/ \E i \in Ids \ {j}, p \in PayloadsFS : store_submission(i, p)) =>
                 /\ files'[j] = files[j]
                 /\ ~Indexed(j)']_vars

\* a store on a lost document has returned: the document holds the stored id
\* alone, and the other submission has its file and no entry
C15_Witness ==
  /\ last.op = "store" /\ last.outcome = "ok"
  /\ Logged(last.log, "warning")
  /\ metadata_file.kind = "object"
  /\ Len(metadata_file.items) = 1
  /\ Indexed(last.id)
  /\ \E j \in Ids \ {last.id} : Orphan(j)

----------------------------------------------------------------------------
(* C16 *)

\* the entry of id is one a cleanup with threshold d marks for deletion
Marked(id, d) ==
  /\ Indexed(id)
  /\ Entry(id).isdict
  /\ DateOf(id).kind = "iso" /\ DateOf(id).aware
  /\ DateOf(id).t < now - d * Day

\* the identification loop of a cleanup with threshold d runs to its end
Identified(d) ==
  /\ load_metadata(metadata_file).type = "dict"
  /\ Scan(load_metadata(metadata_file).items, now - d * Day).raised = ""

\* C16 (cleanup tolerates a missing file): a cleanup that has marked an entry
\* whose payload file is gone returns, the document it saves, once, holds
\* none of the marked ids, the files of the other marked ids are deleted,
\* and nothing else changes.
C16_MissingFileTolerated ==
  [][\A d \in Thresholds :
       (/\ \E id \in Ids : Marked(id, d) /\ ~files[id].exists
        /\ Identified(d)
        /\ cleanup_submissions(d))
       => /\ last'.outcome = "ok"
          /\ Sweep(files, metadata_file, now, d).saves = 1
          /\ metadata_file'.kind = "object"
          /\ \A j \in Ids :
               IF Marked(j, d)
               THEN ~files'[j].exists /\ ~Indexed(j)'
               ELSE /\ files'[j] = files[j]
                    /\ Indexed(j)' <=> Indexed(j)
                    /\ Indexed(j) => Entry(j)' = Entry(j)]_vars

\* a cleanup has deleted two entries and found the file of only one of them
C16_Witness ==
  /\ last.op = "cleanup" /\ last.outcome = "ok"
  /\ \E i \in 1..Len(last.log) :
       last.log[i].what = "Deleted submissions" /\ last.log[i].arg = 2
  /\ Cardinality({i \in 1..Len(last.log) : last.log[i].what = "Deleted file"}) = 1
  /\ \A id \in Ids : ~files[id].exists /\ ~Indexed(id)

----------------------------------------------------------------------------
(* C17 *)

\* C17 (load reads before it evicts): a load of an id whose file and entry
\* are present returns the payload read from the file and the entry, also
\* when the entry is older than 28 days at the time of the sweep; that sweep
\* then deletes file and entry, and a load of the id in the state it leaves
\* fails with NotFound.
C17_LoadThenEvict ==
  [][\A id \in Ids :
       (/\ files[id].exists /\ Indexed(id)
        /\ load_submission(id))
       => /\ last'.outcome = "ok"
          /\ last'.ret_payload = <<ReadLines(files[id].text)>>
          /\ last'.ret_metadata = <<Entry(id)>>
          /\ IF Expired(id, now')
             THEN /\ ~files'[id].exists /\ ~Indexed(id)'
                  /\ Load(id, now)'.outcome = "NotFound"
             ELSE files'[id] = files[id] /\ Indexed(id)' /\ Entry(id)' = Entry(id)]_vars

\* a load has returned a submission that its own sweep has removed
C17_Witness ==
  /\ last.op = "load" /\ last.outcome = "ok"
  /\ Len(last.ret_payload[1]) > 0
  /\ last.ret_metadata[1].date_indexed.t < now - DefaultDays * Day
  /\ ~files[last.id].exists
  /\ ~Indexed(last.id)

----------------------------------------------------------------------------
(* C18 *)

\* metadata.json is a mapping of ids to entries, each an object whose
\* date_indexed is a timestamp with UTC offset or is no timestamp at all
WellFormed ==
  /\ metadata_file.kind = "object"
  /\ \A i \in 1..Len(metadata_file.items) :
       LET data == metadata_file.items[i].data IN
       /\ data.isdict
       /\ \/ data.date_indexed.kind \in {"absent", "empty", "garbage"}
          \/ data.date_indexed.kind = "iso" /\ data.date_indexed.aware

\* C18 (frame of store): on a well-formed document a store of id returns,
\* leaves id with the payload written and an entry of its own time, removes
\* file and entry of every other id whose timestamp is older than 28 days at
\* the time of its sweep, and leaves file and entry of the rest as they were.
C18_StoreFrame ==
  [][\A id \in Ids, p \in PayloadsFS :
       (WellFormed /\ store_submission(id, p))
       => /\ last'.outcome = "ok"
          /\ files'[id] = [exists |-> TRUE, text |-> WriteLines(p)]
          /\ Indexed(id)' /\ Entry(id)' = NewEntry(now)
          /\ \A j \in Ids \ {id} :
               IF Expired(j, now')
               THEN ~files'[j].exists /\ ~Indexed(j)'
               ELSE /\ files'[j] = files[j]
                    /\ Indexed(j)' <=> Indexed(j)
                    /\ Indexed(j) => Entry(j)' = Entry(j)]_vars

\* a store has returned after its sweep removed the other submission
C18_Witness ==
  /\ last.op = "store" /\ last.outcome = "ok"
  /\ \E i \in 1..Len(last.log) :
       last.log[i].what = "Deleted submissions" /\ last.log[i].arg = 1
  /\ files[last.id].exists /\ Indexed(last.id)
  /\ \A j \in Ids \ {last.id} : ~files[j].exists /\ ~Indexed(j)

====
